---- MODULE Spec2Model ----
(***************************************************************************)
(* bighu630/clientPool: a generic client pool with three load-balancing    *)
(* selectors, a per-handle circuit breaker and a middleware chain.         *)
(*                                                                         *)
(* Threads call the Do* entry points concurrently.  A call is split at the *)
(* points where the Go code takes or releases a lock: every per-handle     *)
(* method (IsUnavailable, GetLastFail, ResetAvailable, MarkFail, ...)      *)
(* is one atomic step, the selectors run under the pool's read lock, and   *)
(* the middleware chain with the operation runs with no lock held.         *)
(***************************************************************************)
EXTENDS Integers, Sequences, FiniteSets, TLC

VARIABLES
    clients,          \* ClientPool.clients: sequence of handles
    index,            \* ClientPool.index: the round-robin cursor
    middlewares,      \* ClientPool.middlewares: sequence of middleware kinds
    maxFails,         \* ClientPool.maxFails
    cooldown,         \* ClientPool.cooldown
    defaultBalancer,  \* ClientPool.defaultBalancer
    now,              \* the wall clock read by time.Now / time.Since
    th,               \* per thread: position in its Do* call and its locals
    obs,              \* per thread: what the current call has done so far
    rrOrder,          \* handles selected by an unbroken run of successful
                      \* round-robin calls on the fully built pool
    quarantined,      \* handles tripped and not since scanned by a
                      \* selector with their cooldown elapsed
    ncalls,           \* the number of Do* calls made so far, of those the
                      \* scenario counts
    lim               \* the bounds of the scenario (fixed by Init)

vars == <<clients, index, middlewares, maxFails, cooldown, defaultBalancer,
          now, th, obs, rrOrder, quarantined, ncalls, lim>>

----------------------------------------------------------------------------
(* Bounds of the scenarios.                                                *)

NumThreads == 2
MaxClients == 1
MaxMiddlewares == 1
MaxCalls == 3
MaxTime == 1
MaxRRClients == 2
MaxRRCalls == 4
MaxSeqClients == 3
MaxSeqCalls == 6
MaxSeqTime == 2
MaxChainMiddlewares == 3
MaxChainCalls == 2
MaxAllClients == 3
MaxAllCalls == 2
MaxAllTime == 1
MaxWeight == 3
MaxLiveClients == 3
MaxGrowClients == 2
MaxGrowCalls == 2
MaxCauseMiddlewares == 2
MaxCauseCalls == 2
MaxMeterMiddlewares == 2
MaxMeterCalls == 2
MaxDispatchClients == 2
MaxDispatchCalls == 2
MaxHeavyClients == 3
MaxHeavyCalls == 2
IntBits == 6
MaxCoolClients == 2
MaxCoolCalls == 4
MaxCoolTime == 2
MaxWatchClients == 2
MaxWatchCalls == 3
MaxWearClients == 2
MaxWearCalls == 18

(* Program constants.                                                      *)

RetryAttempts == 6

\* The label names of the metric vectors: "client" and "method".
MetricLabelNames == 2

RoundRobin == "round_robin"
WeightedRandom == "weighted_random"
Random == "random"
BalancerType == {RoundRobin, WeightedRandom, Random}

NoAvailableClientError == "not available client"

\* Go's int, scaled down to IntBits bits: the largest int, and the value an
\* int holds after an addition whose exact result is n.
MaxInt == 2 ^ (IntBits - 1) - 1

WrapInt(n) == ((n + 2 ^ (IntBits - 1)) % 2 ^ IntBits) - 2 ^ (IntBits - 1)

\* lastFail of a handle that never failed: the zero time.Time, long ago.
ZeroTime == -1

----------------------------------------------------------------------------
(* The handle (clientWrapper/client_wrapper.go).                           *)

NewClientWrapper(client, id, weight) ==
    [Id |-> id, client |-> client, weight |-> weight,
     failCount |-> 0, lastFail |-> ZeroTime, unavailable |-> FALSE]

\* A half-open reset: the handle comes back one failure short of tripping.
ResetAvailableHalfOpen(c) ==
    [c EXCEPT !.failCount = IF @ > 0 THEN @ - 1 ELSE 0,
              !.unavailable = FALSE]

\* A reset that clears the count and leaves the handle tripped.
ResetAvailableCountOnly(c) == [c EXCEPT !.failCount = 0]

ResetAvailable(c) ==
    [c EXCEPT !.failCount = 0, !.unavailable = FALSE]

\* A MarkFail whose increment starts from a count read before the lock was
\* taken: an increment made in between is lost.
MarkFailStale(c, maxFail) ==
    [c EXCEPT !.failCount = IF c.failCount = 0 THEN 1 ELSE c.failCount,
              !.unavailable = IF c.failCount + 1 >= maxFail
                              THEN TRUE ELSE c.unavailable,
              !.lastFail = now]

\* A MarkFail that records the time of the failure only when it trips the
\* handle.
MarkFailTripTime(c, maxFail) ==
    [c EXCEPT !.failCount = c.failCount + 1,
              !.unavailable = IF c.failCount + 1 >= maxFail
                              THEN TRUE ELSE c.unavailable,
              !.lastFail = IF ~c.unavailable /\ c.failCount + 1 >= maxFail
                           THEN now ELSE c.lastFail]

\* A MarkFail that trips one failure late.
MarkFailLate(c, maxFail) ==
    [c EXCEPT !.failCount = c.failCount + 1,
              !.unavailable = IF c.failCount + 1 > maxFail
                              THEN TRUE ELSE c.unavailable,
              !.lastFail = now]

MarkFail(c, maxFail) ==
    [c EXCEPT !.failCount = c.failCount + 1,
              !.unavailable = IF c.failCount + 1 >= maxFail
                              THEN TRUE ELSE c.unavailable,
              !.lastFail = now]

\* A MarkSuccess that clears the count and leaves the handle tripped.
MarkSuccessCountOnly(c) == [c EXCEPT !.failCount = 0]

MarkSuccess(c) ==
    [c EXCEPT !.failCount = 0, !.unavailable = FALSE]

GetLastFail(c) == c.lastFail

GetWight(c) == c.weight

GetClient(c) == c.client

IsUnavailable(c) == c.unavailable

\* A cooldown test that passes at the instant the cooldown ends.
SinceAtLeast(t, d) == t = ZeroTime \/ now - t >= d

\* time.Since(t) > d, with the zero time infinitely long ago.
SinceExceeds(t, d) == t = ZeroTime \/ now - t > d

----------------------------------------------------------------------------
(* The middleware chain.  A middleware is modelled by its kind; what the   *)
(* environment does during one call (how often the operation fails, how,   *)
(* whether the limiter times out) is the call's script.                    *)

Recover == "Recover"          \* middleware.RecoverMiddleware
Timeout == "Timeout"          \* middleware.NewTimeoutMiddleware: calls next once
RateLimiter == "RateLimiter"  \* RateLimiterMiddleware: may return without next
Retry == "Retry"              \* middleware.NewRetryMiddleware
Swallow == "Swallow"          \* a WrapMiddleware func that calls next, returns nil
Panicky == "Panicky"          \* a WrapMiddleware func that panics before next

NewPrometheus == "NewPrometheus"  \* middleware.NewPrometheusMiddleware
Prometheus == "Prometheus"        \* middleware.PrometheusMiddleware

UserKinds == {Recover, Timeout, RateLimiter, Retry, Swallow, Panicky}

\* The outcome of the n-th invocation of the operation under script s: nil,
\* a panic, an error of its own ("err") or the error of its context.
OpOutcome(s, n) == IF n <= s.opFails THEN s.opMode ELSE "nil"

\* A handler's result: the error it returns (or the panic that unwinds
\* through it), the number of operation invocations so far and the events.
Result(err, panicking, calls, trace) ==
    [err |-> err, panic |-> panicking, calls |-> calls, trace |-> trace]

RECURSIVE Handler(_, _, _, _, _, _)
RECURSIVE RetryDo(_, _, _, _, _, _, _)

\* A retry that makes one attempt more.
RetryDoOnceMore(chain, order, j, s, calls, trace, n) ==
    LET r == Handler(chain, order, j + 1, s, calls, trace)
    IN  IF r.panic \/ r.err = "nil" \/ n > RetryAttempts
        THEN r
        ELSE RetryDo(chain, order, j, s, r.calls, r.trace, n + 1)

\* retry.Do(next, LastErrorOnly, Attempts(6)): attempt number n (1-based).
RetryDo(chain, order, j, s, calls, trace, n) ==
    LET r == Handler(chain, order, j + 1, s, calls, trace)
    IN  IF r.panic \/ r.err = "nil" \/ n >= RetryAttempts
        THEN r
        ELSE RetryDo(chain, order, j, s, r.calls, r.trace, n + 1)

\* The handler at nesting depth j: middleware chain[order[j]] wrapped around
\* the handler at depth j+1; the innermost handler is the user operation fn.
\* Events name a middleware by its place in the chain.
Handler(chain, order, j, s, calls, trace) ==
    IF j > Len(order)
    THEN LET o == OpOutcome(s, calls + 1)
             tr == Append(trace, <<"op">>)
         IN  IF o = "panic"
             THEN Result("nil", TRUE, calls + 1, Append(tr, <<"panic", 0>>))
             ELSE Result(IF o = "nil" THEN "nil"
                         ELSE IF o = "err" THEN "operation failed" ELSE o,
                         FALSE, calls + 1, tr)
    ELSE LET i == order[j]
             m == chain[i]
             tin == Append(trace, <<"in", i>>)
             Out(r) == [r EXCEPT !.trace = IF r.panic THEN r.trace
                                           ELSE Append(r.trace, <<"out", i>>)]
         IN  CASE m = Recover ->
                    LET r == Handler(chain, order, j + 1, s, calls, tin)
                    IN  IF r.panic
                        THEN Out(Result("panic recovered", FALSE, r.calls,
                                        Append(r.trace, <<"recovered", i>>)))
                        ELSE Out(r)
               [] m = Timeout ->
                    Out(Handler(chain, order, j + 1, s, calls, tin))
               [] m = RateLimiter ->
                    IF s.limited
                    THEN Out(Result("rate: wait timeout", FALSE, calls, tin))
                    ELSE Out(Handler(chain, order, j + 1, s, calls, tin))
               [] m = Retry -> Out(RetryDo(chain, order, j, s, calls, tin, 1))
               [] m = Swallow ->
                    LET r == Handler(chain, order, j + 1, s, calls, tin)
                    IN  Out([r EXCEPT !.err = IF r.panic THEN r.err ELSE "nil"])
               [] m = Panicky ->
                    Result("nil", TRUE, calls, Append(tin, <<"panic", i>>))
               [] m = NewPrometheus ->
                    \* labels: the handle's id, then the context's client and
                    \* method labels if present; WithLabelValues panics
                    \* unless it gets one value per label name.
                    LET n == 1 + (IF s.clientKey THEN 1 ELSE 0)
                               + (IF s.methodKey THEN 1 ELSE 0)
                        tl == Append(tin, <<"labels", n>>)
                    IN  IF n # MetricLabelNames
                        THEN Result("nil", TRUE, calls,
                                    Append(tl, <<"panic", i>>))
                        ELSE Out(Handler(chain, order, j + 1, s, calls, tl))
               [] m = Prometheus ->
                    \* labels: the handle's id and the context's method
                    \* label, "unknown" without one.
                    Out(Handler(chain, order, j + 1, s, calls,
                                Append(tin, <<"labels", MetricLabelNames>>)))

\* A fold from the first middleware to the last: the last one outermost.
NestingReversed(chain) == [j \in 1..Len(chain) |-> Len(chain) + 1 - j]

\* The fold of executeWithMiddleware, from the last middleware to the first:
\* the middlewares' places in the chain, outermost first.
Nesting(chain) == [j \in 1..Len(chain) |-> j]

\* A chain whose limiter always gets its token.
executeGrantingToken(chain, s) ==
    Handler(chain, Nesting(chain), 1, [s EXCEPT !.limited = FALSE], 0, <<>>)

\* executeWithMiddleware: the chain folded around fn, then run.
executeWithMiddleware(chain, s) ==
    Handler(chain, Nesting(chain), 1, s, 0, <<>>)

\* Whether a panic was raised somewhere in the run that left trace tr.
PanicRaised(tr) == \E k \in 1..Len(tr) : tr[k][1] = "panic"

----------------------------------------------------------------------------
(* The pool (ClientPool).                                                  *)

\* A registration at the front of the chain.
RegisteredFirst(chain, m) == <<m>> \o chain

\* RegisterMiddleware: append to the chain.
Registered(chain, m) == Append(chain, m)

\* A constructor that registers no Recovery.
NewClientPoolBare(mf, cd, db) ==
    [clients |-> <<>>, index |-> 0, maxFails |-> mf, cooldown |-> cd,
     defaultBalancer |-> db, middlewares |-> <<>>]

\* NewClientPool: the fields of a fresh pool; Recovery is registered first.
NewClientPool(mf, cd, db) ==
    [clients |-> <<>>, index |-> 0, maxFails |-> mf, cooldown |-> cd,
     defaultBalancer |-> db, middlewares |-> Registered(<<>>, Recover)]

\* An AddClient that keeps the weight it is given.
NormalWeightKept(weight) == weight

\* AddClient's weight normalisation: if weight <= 0, weight = 1.
NormalWeight(weight) == IF weight <= 0 THEN 1 ELSE weight

\* A Do* that counts only the operation's own errors as failures.
OutcomeOperationErrorsOnly(err) ==
    IF err = "operation failed" THEN <<"MarkFail">> ELSE <<"MarkSuccess">>

\* A Do* that records failures only.
OutcomeFailuresOnly(err) == IF err # "nil" THEN <<"MarkFail">> ELSE <<>>

\* The handle methods a Do* entry point calls after the chain returned err.
Outcome(err) == IF err # "nil" THEN <<"MarkFail">> ELSE <<"MarkSuccess">>

\* One handle method applied to handle c.
Call(c, method) ==
    IF method = "MarkFail" THEN MarkFail(c, maxFails) ELSE MarkSuccess(c)

RECURSIVE CallAll(_, _)
CallAll(c, methods) ==
    IF methods = <<>> THEN c
    ELSE CallAll(Call(c, Head(methods)), Tail(methods))

\* A walk that always stops at the first handle.
WalkFirst(valid, r, sum) == IF valid = <<>> THEN 0 ELSE Head(valid)

\* A walk that compares with r <= sum.
RECURSIVE WalkInclusive(_, _, _)
WalkInclusive(valid, r, sum) ==
    IF valid = <<>> THEN 0
    ELSE IF r <= sum + GetWight(clients[Head(valid)]) THEN Head(valid)
    ELSE WalkInclusive(Tail(valid), r, sum + GetWight(clients[Head(valid)]))

\* weightedRandom's walk: the first handle of valid whose running weight
\* sum exceeds the draw r; 0 when the walk falls off the end.
RECURSIVE Walk(_, _, _)
Walk(valid, r, sum) ==
    IF valid = <<>> THEN 0
    ELSE IF r < WrapInt(sum + GetWight(clients[Head(valid)]))
    THEN Head(valid)
    ELSE Walk(Tail(valid), r, WrapInt(sum + GetWight(clients[Head(valid)])))

----------------------------------------------------------------------------
(* Threads.                                                                *)

Threads == lim.threads

IdleThread ==
    [pc |-> "idle", balancer |-> "none", i |-> 0, cw |-> 0, t |-> 0,
     lf |-> ZeroTime, validClients |-> <<>>, total |-> 0, err |-> "nil"]

NoObs ==
    [marks |-> <<>>, stayed |-> {}, pre |-> <<>>, trace |-> <<>>,
     calls |-> 0, resets |-> {}, kept |-> {}, alone |-> TRUE,
     cursor |-> 0]

\* The program points at which a selector holds c.mu.RLock().
ScanPcs == {"rr_pick", "rr_inc", "check", "lastfail", "since", "reset",
            "recheck", "draw"}

\* A read lock kept until the outcome is recorded.
LockHeldAcrossCall(p) == th[p].pc \in ScanPcs \cup {"exec", "mark"}

RLockHeld(p) == th[p].pc \in ScanPcs

\* c.mu.Lock() can be taken: no selector holds the read lock.
CanLock == \A p \in Threads : ~RLockHeld(p)

Available == {k \in 1..Len(clients) : ~IsUnavailable(clients[k])}

----------------------------------------------------------------------------
(* Observations kept beside the program's state.                           *)

\* The configuration fixed at construction, and the scenario.
fixed == <<maxFails, cooldown, defaultBalancer, lim>>

\* rrOrder: what an unbroken run of successful, sequential round-robin
\* calls on a pool filled beforehand has selected.  Anything else breaks it.
Broken == [pure |-> FALSE, sel |-> <<>>]

\* obs when thread p enters a selector.  In a watched scenario p also notes
\* the cursor it starts from and whether another selector holds the read
\* lock, and a selector that is scanning notes that p has come in.
ObsAfterBegin(p) ==
    [q \in Threads |->
       IF q = p
       THEN [NoObs EXCEPT
               !.stayed = Available,
               !.alone = ~lim.watch \/ \A r \in Threads \ {p} : ~RLockHeld(r),
               !.cursor = IF lim.watch THEN index ELSE 0]
       ELSE [obs[q] EXCEPT
               !.alone = IF lim.watch /\ RLockHeld(q) THEN FALSE ELSE @]]

OrderAfterBegin(p, b) ==
    IF rrOrder.pure /\ b = RoundRobin /\ Len(clients) > 0
       /\ \A q \in Threads \ {p} : th[q].pc = "idle"
    THEN rrOrder ELSE Broken

OrderAfterSelect(k) ==
    IF rrOrder.pure THEN [rrOrder EXCEPT !.sel = Append(@, k)] ELSE Broken

\* The cooldown has elapsed since the last failure of handle k.
Elapsed(k) ==
    clients[k].lastFail = ZeroTime \/ now - clients[k].lastFail > cooldown

\* quarantined after a selector has looked at handle k.
Scanned(k) == IF Elapsed(k) THEN quarantined \ {k} ELSE quarantined

----------------------------------------------------------------------------
(* Selection (get_client.go).  The selector of thread p runs from Begin to *)
(* Selected or Failed under the read lock.                                 *)

\* The selector returns handle k: the lock is released, the scan's locals die.
Selected(p, k) ==
    /\ th' = [th EXCEPT ![p] = [IdleThread EXCEPT !.pc = "exec",
                                                  !.balancer = th[p].balancer,
                                                  !.cw = k]]
    /\ rrOrder' = OrderAfterSelect(k)

\* A failed selection after which the Do* call returns no error.
FailedSilently(p) ==
    /\ th' = [th EXCEPT ![p] = [IdleThread EXCEPT
                                   !.pc = "done",
                                   !.balancer = th[p].balancer]]
    /\ rrOrder' = Broken

\* The selector returns NoAvailableClientError, and so does the Do* call.
Failed(p) ==
    /\ th' = [th EXCEPT ![p] = [IdleThread EXCEPT
                                   !.pc = "done",
                                   !.balancer = th[p].balancer,
                                   !.err = NoAvailableClientError]]
    /\ rrOrder' = Broken

\* The selector panics: the panic leaves the Do* call, which has no chain
\* around the selection.
Panicked(p) ==
    /\ th' = [th EXCEPT ![p] = [IdleThread EXCEPT
                                   !.pc = "panicked",
                                   !.balancer = th[p].balancer]]
    /\ rrOrder' = Broken

\* Selectors without the empty-pool check: c.index % 0 and rand.Intn(0)
\* panic outside the chain; weightedRandom finds a total of 0.
BeginUnguarded(p, b) ==
    /\ th[p].pc = "idle"
    /\ ncalls < lim.maxCalls
    /\ ncalls' = IF b \in lim.counted THEN ncalls + 1 ELSE ncalls
    /\ obs' = ObsAfterBegin(p)
    /\ rrOrder' = OrderAfterBegin(p, b)
    /\ CASE b = WeightedRandom ->
              th' = [th EXCEPT ![p] = [IdleThread EXCEPT
                        !.pc = IF Len(clients) = 0 THEN "draw" ELSE "check",
                        !.balancer = b,
                        !.cw = IF Len(clients) = 0 THEN 0 ELSE 1]]
         [] b = RoundRobin /\ Len(clients) > 0 ->
              th' = [th EXCEPT ![p] = [IdleThread EXCEPT
                        !.pc = "rr_pick", !.balancer = b, !.i = 0]]
         [] b = Random /\ Len(clients) > 0 ->
              \E k \in 1..Len(clients) :
                  th' = [th EXCEPT ![p] = [IdleThread EXCEPT
                            !.pc = "check", !.balancer = b, !.cw = k]]
         [] OTHER ->
              th' = [th EXCEPT ![p] = [IdleThread EXCEPT
                        !.pc = "panicked", !.balancer = b]]
    /\ UNCHANGED <<clients, index, middlewares, now, quarantined, fixed>>

\* The first lines of roundRobin / weightedRandom / random: RLock, the
\* empty-pool check, and the set-up of the scan.
Begin(p, b) ==
    /\ th[p].pc = "idle"
    /\ ncalls < lim.maxCalls
    /\ ncalls' = IF b \in lim.counted THEN ncalls + 1 ELSE ncalls
    /\ obs' = ObsAfterBegin(p)
    /\ IF Len(clients) = 0
       THEN /\ th' = [th EXCEPT ![p] = [IdleThread EXCEPT
                         !.pc = "done", !.balancer = b,
                         !.err = NoAvailableClientError]]
            /\ rrOrder' = Broken
       ELSE /\ rrOrder' = OrderAfterBegin(p, b)
            /\ CASE b = RoundRobin ->
                      th' = [th EXCEPT ![p] = [IdleThread EXCEPT
                                !.pc = "rr_pick", !.balancer = b, !.i = 0]]
                 [] b = WeightedRandom ->
                      th' = [th EXCEPT ![p] = [IdleThread EXCEPT
                                !.pc = "check", !.balancer = b, !.cw = 1]]
                 [] b = Random ->
                      \E k \in 1..Len(clients) :
                          th' = [th EXCEPT ![p] = [IdleThread EXCEPT
                                    !.pc = "check", !.balancer = b, !.cw = k]]
    /\ UNCHANGED <<clients, index, middlewares, now, quarantined, fixed>>

DoRoundRobinClient(p) == Begin(p, RoundRobin)

DoWeightedRandomClient(p) == Begin(p, WeightedRandom)

DoRandomClient(p) == Begin(p, Random)

\* A Do that uses round robin whatever the default balancer is.
DoRoundRobinOnly(p) == DoRoundRobinClient(p)

\* Do: dispatch on the default balancer; anything else is Random.
Do(p) ==
    CASE defaultBalancer = RoundRobin -> DoRoundRobinClient(p)
      [] defaultBalancer = WeightedRandom -> DoWeightedRandomClient(p)
      [] OTHER -> DoRandomClient(p)

\* A scan that starts at the first handle in every call.
RoundRobinPickFromFirst(p) ==
    /\ th[p].pc = "rr_pick"
    /\ th' = [th EXCEPT ![p].pc = "rr_inc", ![p].t = index,
                        ![p].cw = (th[p].i % Len(clients)) + 1]
    /\ UNCHANGED <<clients, index, middlewares, now, obs, rrOrder,
                   quarantined, ncalls, fixed>>

\* Go's a % n for n > 0: the remainder has the sign of a.
Rem(a, n) == IF a >= 0 THEN a % n ELSE -((-a) % n)

\* roundRobin: cw := c.clients[c.index % len(c.clients)], which panics with
\* an index out of range if the remainder is negative.
RoundRobinPick(p) ==
    /\ th[p].pc = "rr_pick"
    /\ IF Rem(index, Len(clients)) < 0
       THEN Panicked(p)
       ELSE /\ th' = [th EXCEPT ![p].pc = "rr_inc", ![p].t = index,
                                ![p].cw = Rem(index, Len(clients)) + 1]
            /\ rrOrder' = rrOrder
    /\ UNCHANGED <<clients, index, middlewares, now, obs, quarantined,
                   ncalls, fixed>>

\* A selector that leaves the cursor where it is.
RoundRobinStay(p) ==
    /\ th[p].pc = "rr_inc"
    /\ th' = [th EXCEPT ![p].pc = "check", ![p].t = 0]
    /\ UNCHANGED <<clients, index, middlewares, now, obs, rrOrder,
                   quarantined, ncalls, fixed>>

\* roundRobin: c.index++ under the read lock only.  The increment is not
\* atomic: it stores one more than the cursor it loaded, which is the value
\* loaded for the pick or a value loaded since.
RoundRobinInc(p) ==
    /\ th[p].pc = "rr_inc"
    /\ \/ index' = WrapInt(index + 1)
       \/ index' = WrapInt(th[p].t + 1)
    /\ th' = [th EXCEPT ![p].pc = "check", ![p].t = 0]
    /\ UNCHANGED <<clients, middlewares, now, obs, rrOrder, quarantined,
                   ncalls, fixed>>

\* if cw.IsUnavailable() && ...
CheckUnavailable(p) ==
    /\ th[p].pc = "check"
    /\ th' = [th EXCEPT ![p].pc = IF IsUnavailable(clients[th[p].cw])
                                  THEN "lastfail" ELSE "recheck"]
    /\ quarantined' = Scanned(th[p].cw)
    /\ UNCHANGED <<clients, index, middlewares, now, obs, rrOrder, ncalls,
                   fixed>>

\* ... cw.GetLastFail() ...
ReadLastFail(p) ==
    /\ th[p].pc = "lastfail"
    /\ th' = [th EXCEPT ![p].pc = "since",
                        ![p].lf = GetLastFail(clients[th[p].cw])]
    /\ quarantined' = Scanned(th[p].cw)
    /\ UNCHANGED <<clients, index, middlewares, now, obs, rrOrder, ncalls,
                   fixed>>

\* ... time.Since(lastFail) > c.cooldown
CheckCooldown(p) ==
    /\ th[p].pc = "since"
    /\ th' = [th EXCEPT ![p].pc = IF SinceExceeds(th[p].lf, cooldown)
                                  THEN "reset" ELSE "recheck",
                        ![p].lf = IF SinceExceeds(th[p].lf, cooldown)
                                  THEN @ ELSE ZeroTime]
    /\ obs' = [obs EXCEPT ![p].kept =
                  IF lim.watch /\ ~SinceExceeds(th[p].lf, cooldown)
                  THEN @ \cup {th[p].cw} ELSE @]
    /\ quarantined' = Scanned(th[p].cw)
    /\ UNCHANGED <<clients, index, middlewares, now, rrOrder, ncalls,
                   fixed>>

\* cw.ResetAvailable()
LazyReset(p) ==
    /\ th[p].pc = "reset"
    /\ clients' = [clients EXCEPT ![th[p].cw] = ResetAvailable(@)]
    /\ th' = [th EXCEPT ![p].pc = "recheck", ![p].lf = ZeroTime]
    /\ obs' = [obs EXCEPT ![p].resets = IF lim.watch
                                        THEN @ \cup {th[p].cw} ELSE @]
    /\ quarantined' = Scanned(th[p].cw)
    /\ UNCHANGED <<index, middlewares, now, rrOrder, ncalls, fixed>>

\* roundRobin: if !cw.IsUnavailable() { return cw, nil }; otherwise the next
\* iteration, or NoAvailableClientError after len(c.clients) iterations.
RoundRobinRecheck(p) ==
    /\ th[p].pc = "recheck" /\ th[p].balancer = RoundRobin
    /\ IF ~IsUnavailable(clients[th[p].cw])
       THEN Selected(p, th[p].cw)
       ELSE IF th[p].i + 1 < Len(clients)
       THEN /\ th' = [th EXCEPT ![p].pc = "rr_pick", ![p].i = @ + 1,
                                ![p].cw = 0]
            /\ UNCHANGED rrOrder
       ELSE Failed(p)
    /\ quarantined' = Scanned(th[p].cw)
    /\ UNCHANGED <<clients, index, middlewares, now, obs, ncalls, fixed>>

\* A random selector that moves on to the next handle when the drawn one is
\* tripped.
RandomRecheckNext(p) ==
    /\ th[p].pc = "recheck" /\ th[p].balancer = Random
    /\ IF ~IsUnavailable(clients[th[p].cw])
       THEN Selected(p, th[p].cw)
       ELSE IF th[p].cw < Len(clients)
       THEN /\ th' = [th EXCEPT ![p].pc = "check", ![p].cw = @ + 1]
            /\ UNCHANGED rrOrder
       ELSE Failed(p)
    /\ quarantined' = Scanned(th[p].cw)
    /\ UNCHANGED <<clients, index, middlewares, now, obs, ncalls, fixed>>

\* random: if !cw.IsUnavailable() { return cw, nil }; otherwise the error.
RandomRecheck(p) ==
    /\ th[p].pc = "recheck" /\ th[p].balancer = Random
    /\ IF ~IsUnavailable(clients[th[p].cw])
       THEN Selected(p, th[p].cw)
       ELSE Failed(p)
    /\ quarantined' = Scanned(th[p].cw)
    /\ UNCHANGED <<clients, index, middlewares, now, obs, ncalls, fixed>>

\* A weighted scan that stops at the first handle it finds available.
WeightedRecheckFirst(p) ==
    /\ th[p].pc = "recheck" /\ th[p].balancer = WeightedRandom
    /\ LET k == th[p].cw
           ok == ~IsUnavailable(clients[k])
           total == IF ok THEN WrapInt(th[p].total + GetWight(clients[k]))
                    ELSE th[p].total
           valid == IF ok THEN Append(th[p].validClients, k)
                    ELSE th[p].validClients
           last == ok \/ k = Len(clients)
       IN  th' = [th EXCEPT ![p].total = total, ![p].validClients = valid,
                            ![p].cw = IF last THEN 0 ELSE k + 1,
                            ![p].pc = IF last THEN "draw" ELSE "check"]
    /\ quarantined' = Scanned(th[p].cw)
    /\ UNCHANGED <<clients, index, middlewares, now, obs, rrOrder, ncalls,
                   fixed>>

\* weightedRandom: if !cw.IsUnavailable() { total += weight; append }, then
\* the next handle of the range loop, or the draw after the last one.
WeightedRecheck(p) ==
    /\ th[p].pc = "recheck" /\ th[p].balancer = WeightedRandom
    /\ LET k == th[p].cw
           ok == ~IsUnavailable(clients[k])
           total == IF ok THEN WrapInt(th[p].total + GetWight(clients[k]))
                    ELSE th[p].total
           valid == IF ok THEN Append(th[p].validClients, k)
                    ELSE th[p].validClients
       IN  th' = [th EXCEPT ![p].total = total, ![p].validClients = valid,
                            ![p].cw = IF k < Len(clients) THEN k + 1 ELSE 0,
                            ![p].pc = IF k < Len(clients) THEN "check"
                                      ELSE "draw"]
    /\ quarantined' = Scanned(th[p].cw)
    /\ UNCHANGED <<clients, index, middlewares, now, obs, rrOrder, ncalls,
                   fixed>>

\* weightedRandom: if total == 0 fail; r := c.rand.Intn(total), which
\* panics if total is negative; the walk.
WeightedDraw(p) ==
    /\ th[p].pc = "draw"
    /\ IF th[p].total = 0
       THEN Failed(p)
       ELSE IF th[p].total < 0
       THEN Panicked(p)
       ELSE \E r \in 0..(th[p].total - 1) :
              LET k == Walk(th[p].validClients, r, 0)
              IN  IF k # 0 THEN Selected(p, k) ELSE Failed(p)
    /\ UNCHANGED <<clients, index, middlewares, now, obs, quarantined,
                   ncalls, fixed>>

----------------------------------------------------------------------------
(* The rest of a Do* call: the chain, the outcome, the return.             *)

\* err = c.executeWithMiddleware(ctx, clientWrapper, fn), with no lock held.
\* A panic that leaves the chain leaves the Do* call as well.
Execute(p) ==
    /\ th[p].pc = "exec"
    /\ \E s \in lim.scripts :
         LET r == executeWithMiddleware(middlewares, s)
         IN  /\ th' = [th EXCEPT ![p].pc = IF r.panic THEN "panicked"
                                           ELSE "mark",
                                 ![p].err = r.err]
             /\ obs' = IF lim.trace
                       THEN [obs EXCEPT ![p].calls = r.calls,
                                        ![p].trace = r.trace]
                       ELSE obs
    /\ UNCHANGED <<clients, index, middlewares, now, rrOrder, quarantined,
                   ncalls, fixed>>

\* if err != nil { clientWrapper.MarkFail(c.maxFails) } else
\* { clientWrapper.MarkSuccess() }; return err
Mark(p) ==
    /\ th[p].pc = "mark"
    /\ LET k == th[p].cw
           methods == Outcome(th[p].err)
           c == CallAll(clients[k], methods)
           failed == \E j \in 1..Len(methods) : methods[j] = "MarkFail"
       IN  /\ clients' = [clients EXCEPT ![k] = c]
           /\ obs' = [q \in Threads |->
                        [obs[q] EXCEPT
                           !.marks = IF q = p
                                     THEN @ \o [j \in 1..Len(methods) |->
                                                  <<methods[j], k>>]
                                     ELSE @,
                           !.pre = IF q = p THEN <<clients[k]>> ELSE @,
                           !.stayed = IF RLockHeld(q) /\ IsUnavailable(c)
                                      THEN @ \ {k} ELSE @,
                           !.alone = IF lim.watch /\ RLockHeld(q)
                                     THEN FALSE ELSE @]]
           /\ rrOrder' = IF failed THEN Broken ELSE rrOrder
           /\ quarantined' = IF failed /\ IsUnavailable(c)
                             THEN quarantined \cup {k} ELSE quarantined
    /\ th' = [th EXCEPT ![p].pc = "done"]
    /\ UNCHANGED <<index, middlewares, now, ncalls, fixed>>

\* The caller has the result and may call again.
Return(p) ==
    /\ th[p].pc = "done"
    /\ th' = [th EXCEPT ![p] = IdleThread]
    /\ obs' = [obs EXCEPT ![p] = NoObs]
    /\ UNCHANGED <<clients, index, middlewares, now, rrOrder, quarantined,
                   ncalls, fixed>>

----------------------------------------------------------------------------
(* Registration and the clock.                                             *)

\* An AddClient that puts the new handle in front of the others.
AddClientFirst(client, id, weight) ==
    /\ CanLock
    /\ Len(clients) < lim.maxClients
    /\ clients' = <<NewClientWrapper(client, id, NormalWeight(weight))>>
                     \o clients
    /\ rrOrder' = Broken
    /\ UNCHANGED <<index, middlewares, now, th, obs, quarantined, ncalls,
                   fixed>>

AddClient(client, id, weight) ==
    /\ CanLock
    /\ Len(clients) < lim.maxClients
    /\ clients' = Append(clients,
                         NewClientWrapper(client, id, NormalWeight(weight)))
    /\ rrOrder' = IF rrOrder.sel = <<>>
                     /\ \A p \in Threads : th[p].pc = "idle"
                  THEN rrOrder ELSE Broken
    /\ UNCHANGED <<index, middlewares, now, th, obs, quarantined, ncalls,
                   fixed>>

\* Registration is done at set-up, before the first call: the chain is read
\* without the lock by executeWithMiddleware.
RegisterMiddleware(m) ==
    /\ CanLock
    /\ ncalls = 0
    /\ Len(middlewares) < 1 + lim.maxMiddlewares
    /\ middlewares' = Registered(middlewares, m)
    /\ UNCHANGED <<clients, index, now, th, obs, rrOrder, quarantined,
                   ncalls, fixed>>

\* A clock with a timer that resets the handles whose cooldown is over.
TickHealing ==
    /\ now < lim.maxTime
    /\ now' = now + 1
    /\ clients' = [k \in 1..Len(clients) |->
                     IF clients[k].unavailable
                        /\ now + 1 - clients[k].lastFail > cooldown
                     THEN ResetAvailable(clients[k]) ELSE clients[k]]
    /\ UNCHANGED <<index, middlewares, th, obs, rrOrder, quarantined,
                   ncalls, fixed>>

Tick ==
    /\ now < lim.maxTime
    /\ now' = now + 1
    /\ UNCHANGED <<clients, index, middlewares, th, obs, rrOrder,
                   quarantined, ncalls, fixed>>

\* The round-robin entry point, the steps of its selector, the rest of a
\* call, AddClient and the clock.
NextRoundRobin ==
    \/ \E p \in Threads : DoRoundRobinClient(p)
    \/ \E p \in Threads : RoundRobinPick(p)
    \/ \E p \in Threads : RoundRobinInc(p)
    \/ \E p \in Threads : CheckUnavailable(p)
    \/ \E p \in Threads : ReadLastFail(p)
    \/ \E p \in Threads : CheckCooldown(p)
    \/ \E p \in Threads : LazyReset(p)
    \/ \E p \in Threads : RoundRobinRecheck(p)
    \/ \E p \in Threads : Execute(p)
    \/ \E p \in Threads : Mark(p)
    \/ \E p \in Threads : Return(p)
    \/ \E a \in lim.adds : AddClient(a[1], a[2], a[3])
    \/ Tick

Next ==
    \/ NextRoundRobin
    \/ \E p \in Threads : Do(p)
    \/ \E p \in Threads : DoWeightedRandomClient(p)
    \/ \E p \in Threads : DoRandomClient(p)
    \/ \E p \in Threads : RandomRecheck(p)
    \/ \E p \in Threads : WeightedRecheck(p)
    \/ \E p \in Threads : WeightedDraw(p)
    \/ \E m \in lim.kinds : RegisterMiddleware(m)

----------------------------------------------------------------------------
(* Scenarios: the pool is constructed by NewClientPool, then used within   *)
(* the scenario's bounds.                                                  *)

Scripts(fails) == [opFails : fails, opMode : {"err", "panic"},
                   limited : BOOLEAN]

InitWith(l) ==
    /\ lim = l
    /\ \E cfg \in l.configs :
         LET pool == NewClientPool(cfg[1], cfg[2], cfg[3])
         IN  /\ clients = pool.clients
             /\ index = pool.index
             /\ middlewares = pool.middlewares
             /\ maxFails = pool.maxFails
             /\ cooldown = pool.cooldown
             /\ defaultBalancer = pool.defaultBalancer
    /\ now = 0
    /\ th = [p \in l.threads |-> IdleThread]
    /\ obs = [p \in l.threads |-> NoObs]
    /\ rrOrder = [pure |-> TRUE, sel |-> <<>>]
    /\ quarantined = {}
    /\ ncalls = 0

\* Concurrent calls of every entry point on a pool of at most MaxClients.
Concurrent ==
    [threads |-> 1..NumThreads, maxClients |-> MaxClients,
     maxMiddlewares |-> MaxMiddlewares,
     maxTime |-> MaxTime, maxCalls |-> MaxCalls,
     adds |-> {<<"x", "c1", 1>>}, kinds |-> {Retry, Swallow, Panicky},
     scripts |-> Scripts({0, 1, RetryAttempts}),
     configs |-> {1, 2} \X {0} \X {RoundRobin}, trace |-> FALSE, watch |-> FALSE,
     counted |-> BalancerType]

Init == InitWith(Concurrent)

Spec == Init /\ [][Next]_vars

\* Concurrent round-robin calls on a pool of at most MaxRRClients.
ConcurrentRoundRobin ==
    [threads |-> 1..NumThreads, maxClients |-> MaxRRClients,
     maxMiddlewares |-> 0,
     maxTime |-> MaxTime, maxCalls |-> MaxRRCalls,
     adds |-> {<<"x", "c1", 1>>}, kinds |-> {},
     scripts |-> Scripts({0, 1}),
     configs |-> {1} \X {0} \X {RoundRobin}, trace |-> FALSE, watch |-> FALSE,
     counted |-> BalancerType]

InitRR == InitWith(ConcurrentRoundRobin)

SpecRR == InitRR /\ [][NextRoundRobin]_vars

\* One caller using round robin only, a pool of up to MaxSeqClients.
SequentialRoundRobin ==
    [threads |-> {1}, maxClients |-> MaxSeqClients,
     maxMiddlewares |-> 0,
     maxTime |-> MaxSeqTime, maxCalls |-> MaxSeqCalls,
     adds |-> {<<"x", "c1", 1>>}, kinds |-> {},
     scripts |-> Scripts({0, 1}),
     configs |-> {1, 2, 3} \X {0, 1} \X {RoundRobin}, trace |-> FALSE, watch |-> FALSE,
     counted |-> BalancerType]

InitRRSeq == InitWith(SequentialRoundRobin)

SpecRRSeq == InitRRSeq /\ [][NextRoundRobin]_vars

\* One caller, one client, chains of up to MaxChainMiddlewares registered
\* middlewares; what each call did is observed.
Chains ==
    [threads |-> {1}, maxClients |-> 1,
     maxMiddlewares |-> MaxChainMiddlewares,
     maxTime |-> 1, maxCalls |-> MaxChainCalls,
     adds |-> {<<"x", "c1", 1>>}, kinds |-> UserKinds,
     scripts |-> Scripts({0, 1, RetryAttempts}),
     configs |-> {1} \X {0} \X {RoundRobin}, trace |-> TRUE, watch |-> FALSE,
     counted |-> BalancerType]

InitChain == InitWith(Chains)

SpecChain == InitChain /\ [][Next]_vars

\* The entry points, the selectors' steps, the rest of a call, AddClient and
\* the clock: everything but registration.
NextSelect ==
    \/ NextRoundRobin
    \/ \E p \in Threads : Do(p)
    \/ \E p \in Threads : DoWeightedRandomClient(p)
    \/ \E p \in Threads : DoRandomClient(p)
    \/ \E p \in Threads : RandomRecheck(p)
    \/ \E p \in Threads : WeightedRecheck(p)
    \/ \E p \in Threads : WeightedDraw(p)

\* One caller using every strategy on a pool of up to MaxAllClients handles
\* added with weights -1..MaxWeight; a handle's client is, in this scenario,
\* the weight AddClient was called with.
EveryStrategy ==
    [threads |-> {1}, maxClients |-> MaxAllClients,
     maxMiddlewares |-> 0,
     maxTime |-> MaxAllTime, maxCalls |-> MaxAllCalls,
     adds |-> {<<w, "c1", w>> : w \in -1..MaxWeight}, kinds |-> {},
     scripts |-> Scripts({0, 1}),
     configs |-> {1} \X {0} \X BalancerType, trace |-> TRUE, watch |-> FALSE,
     counted |-> BalancerType]

InitAll == InitWith(EveryStrategy)

SpecAll == InitAll /\ [][NextSelect]_vars

\* A step of thread p's selection, made while it holds the read lock.
ScanStep(p) ==
    \/ RoundRobinPick(p) \/ RoundRobinInc(p) \/ CheckUnavailable(p)
    \/ ReadLastFail(p) \/ CheckCooldown(p) \/ LazyReset(p)
    \/ RoundRobinRecheck(p) \/ RandomRecheck(p) \/ WeightedRecheck(p)
    \/ WeightedDraw(p)

\* Concurrent round-robin calls whose operations may block for ever: a
\* selection that has the read lock goes on, and so does an AddClient that
\* can take the lock; nothing makes an operation return.
Blocking ==
    [threads |-> 1..NumThreads, maxClients |-> MaxRRClients,
     maxMiddlewares |-> 0,
     maxTime |-> MaxTime, maxCalls |-> NumThreads + 1,
     adds |-> {<<"x", "c1", 1>>}, kinds |-> {},
     scripts |-> Scripts({0, 1}),
     configs |-> {1} \X {0} \X {RoundRobin}, trace |-> FALSE, watch |-> FALSE,
     counted |-> BalancerType]

InitBlocking == InitWith(Blocking)

SpecBlocking ==
    /\ InitBlocking /\ [][NextRoundRobin]_vars
    /\ \A p \in 1..NumThreads : WF_vars(ScanStep(p))
    /\ WF_vars(\E a \in lim.adds : AddClient(a[1], a[2], a[3]))

\* AddClient at set-up, before the first call.
SetUpAddClient == \E a \in lim.adds : ncalls = 0 /\ AddClient(a[1], a[2], a[3])

\* One caller that calls Do again and again on a pool built at set-up, with
\* an operation that always succeeds.
NextLive ==
    \/ SetUpAddClient
    \/ Do(1)
    \/ RoundRobinPick(1)
    \/ RoundRobinInc(1)
    \/ CheckUnavailable(1)
    \/ RoundRobinRecheck(1)
    \/ RandomRecheck(1)
    \/ WeightedRecheck(1)
    \/ WeightedDraw(1)
    \/ Execute(1)
    \/ Mark(1)
    \/ Return(1)

\* Calls without end under the random strategies, whose state is bounded
\* without a budget; round robin, whose cursor grows with every call, gets
\* as many calls as the pool can have handles.
AlwaysSucceeding ==
    [threads |-> {1}, maxClients |-> MaxLiveClients,
     maxMiddlewares |-> 0,
     maxTime |-> 0, maxCalls |-> MaxLiveClients,
     adds |-> {<<"x", "c1", 1>>, <<"x", "c1", 2>>}, kinds |-> {},
     scripts |-> Scripts({0}),
     configs |-> {1} \X {0} \X BalancerType, trace |-> FALSE, watch |-> FALSE,
     counted |-> {RoundRobin}]

InitLive == InitWith(AlwaysSucceeding)

\* The caller goes on, and the random draws are fair: an index, or a
\* collected handle, that can be drawn again and again is drawn.
SpecLive ==
    /\ InitLive /\ [][NextLive]_vars
    /\ WF_vars(Do(1)) /\ WF_vars(ScanStep(1))
    /\ WF_vars(Execute(1)) /\ WF_vars(Mark(1)) /\ WF_vars(Return(1))
    /\ \A k \in 1..MaxLiveClients :
         /\ SF_vars(Do(1) /\ th'[1].cw = k)
         /\ SF_vars(WeightedDraw(1) /\ th'[1].cw = k)

\* Concurrent round-robin calls while the pool grows: handles of different
\* clients, ids and weights are added at any time, the same one possibly
\* twice, and a middleware may be registered at set-up.
Growing ==
    [threads |-> 1..NumThreads, maxClients |-> MaxGrowClients,
     maxMiddlewares |-> 1,
     maxTime |-> MaxTime, maxCalls |-> MaxGrowCalls,
     adds |-> {<<"x", "c1", 1>>, <<"y", "c2", 2>>}, kinds |-> {Timeout},
     scripts |-> Scripts({0, 1}),
     configs |-> {1} \X {0} \X {RoundRobin}, trace |-> FALSE, watch |-> FALSE,
     counted |-> BalancerType]

InitGrow == InitWith(Growing)

SpecGrow == InitGrow /\ [][Next]_vars

\* Calls whose operation returns its own error or the error of a canceled
\* or expired context, and whose limiter may time out.
CauseScripts ==
    [opFails : {0, 1},
     opMode : {"err", "context canceled", "context deadline exceeded"},
     limited : BOOLEAN]

\* One caller using every strategy on one handle, through chains with
\* limiters, timeouts and retries.
Causes ==
    [threads |-> {1}, maxClients |-> 1,
     maxMiddlewares |-> MaxCauseMiddlewares,
     maxTime |-> 1, maxCalls |-> MaxCauseCalls,
     adds |-> {<<"x", "c1", 1>>}, kinds |-> {RateLimiter, Timeout, Retry},
     scripts |-> CauseScripts,
     configs |-> {1, 2} \X {0} \X BalancerType, trace |-> TRUE, watch |-> FALSE,
     counted |-> BalancerType]

InitCause == InitWith(Causes)

SpecCause == InitCause /\ [][Next]_vars

\* Calls whose context carries a client label, a method label, both or
\* neither.
LabelScripts ==
    [opFails : {0, 1}, opMode : {"err"}, limited : {FALSE},
     clientKey : BOOLEAN, methodKey : BOOLEAN]

\* One caller using every strategy on one handle, with metrics middlewares
\* registered.
Metered ==
    [threads |-> {1}, maxClients |-> 1,
     maxMiddlewares |-> MaxMeterMiddlewares,
     maxTime |-> 1, maxCalls |-> MaxMeterCalls,
     adds |-> {<<"x", "c1", 1>>}, kinds |-> {NewPrometheus, Prometheus},
     scripts |-> LabelScripts,
     configs |-> {1, 2} \X {0} \X BalancerType, trace |-> TRUE, watch |-> FALSE,
     counted |-> BalancerType]

InitMeter == InitWith(Metered)

SpecMeter == InitMeter /\ [][Next]_vars

\* One caller using all four entry points on pools constructed with each
\* strategy, or with a name that is none of them, as the default.
Dispatch ==
    [threads |-> {1}, maxClients |-> MaxDispatchClients,
     maxMiddlewares |-> 0,
     maxTime |-> 1, maxCalls |-> MaxDispatchCalls,
     adds |-> {<<"x", "c1", 1>>, <<"y", "c2", 2>>}, kinds |-> {},
     scripts |-> Scripts({0, 1}),
     configs |-> {1} \X {0} \X (BalancerType \cup {"least_conn"}),
     trace |-> FALSE, watch |-> FALSE, counted |-> BalancerType]

InitDispatch == InitWith(Dispatch)

SpecDispatch == InitDispatch /\ [][NextSelect]_vars

\* One caller using every strategy on handles whose weights add up to more
\* than an int holds.
Heavy ==
    [threads |-> {1}, maxClients |-> MaxHeavyClients,
     maxMiddlewares |-> 0,
     maxTime |-> 1, maxCalls |-> MaxHeavyCalls,
     adds |-> {<<"x", "c1", MaxInt>>, <<"y", "c2", 2>>}, kinds |-> {},
     scripts |-> Scripts({0, 1}),
     configs |-> {1} \X {0} \X BalancerType,
     trace |-> FALSE, watch |-> FALSE, counted |-> BalancerType]

InitHeavy == InitWith(Heavy)

SpecHeavy == InitHeavy /\ [][NextSelect]_vars

\* One caller using every strategy on handles that trip and cool down, with
\* cooldowns of 0 and 1 and a clock that runs to MaxCoolTime.
Cooling ==
    [threads |-> {1}, maxClients |-> MaxCoolClients,
     maxMiddlewares |-> 0,
     maxTime |-> MaxCoolTime, maxCalls |-> MaxCoolCalls,
     adds |-> {<<"x", "c1", 1>>}, kinds |-> {},
     scripts |-> Scripts({0, 1}),
     configs |-> {1, 2} \X {0, 1} \X BalancerType,
     trace |-> FALSE, watch |-> FALSE, counted |-> BalancerType]

InitCool == InitWith(Cooling)

SpecCool == InitCool /\ [][NextSelect]_vars

\* One caller, whose operation fails at every call, for as many calls as
\* take the cursor of the failing round-robin scans past the largest int.
Wearing ==
    [threads |-> {1}, maxClients |-> MaxWearClients,
     maxMiddlewares |-> 0,
     maxTime |-> MaxTime, maxCalls |-> MaxWearCalls,
     adds |-> {<<"x", "c1", 1>>}, kinds |-> {},
     scripts |-> [opFails : {1}, opMode : {"err"}, limited : {FALSE}],
     configs |-> {1} \X {0} \X {RoundRobin},
     trace |-> FALSE, watch |-> FALSE, counted |-> BalancerType]

InitWear == InitWith(Wearing)

SpecWear == InitWear /\ [][NextSelect]_vars

\* Two callers using every strategy at the same time on handles that trip
\* at the first failure and cool down at once; each selection is watched.
Interfering ==
    [threads |-> 1..NumThreads, maxClients |-> MaxWatchClients,
     maxMiddlewares |-> 0,
     maxTime |-> MaxTime, maxCalls |-> MaxWatchCalls,
     adds |-> {<<"x", "c1", 1>>}, kinds |-> {},
     scripts |-> [opFails : {0, 1}, opMode : {"err"}, limited : {FALSE}],
     configs |-> {1} \X {0} \X {RoundRobin},
     trace |-> FALSE, watch |-> TRUE, counted |-> BalancerType]

InitWatch == InitWith(Interfering)

SpecWatch == InitWatch /\ [][NextSelect]_vars

----------------------------------------------------------------------------
(* Properties.                                                             *)

\* The outcome recorded by the finished call of thread p: one MarkFail or one
\* MarkSuccess, on the selected handle, MarkFail iff the error is non-nil.
OneOutcome(p) ==
    /\ Len(obs[p].marks) = 1
    /\ obs[p].marks[1][2] = th[p].cw
    /\ obs[p].marks[1][1] \in {"MarkFail", "MarkSuccess"}
    /\ obs[p].marks[1][1] = "MarkFail" <=> th[p].err # "nil"

MarkStep(p, k, method) ==
    /\ th[p].pc = "mark" /\ th'[p].pc = "done" /\ th[p].cw = k
    /\ obs'[p].marks = Append(obs[p].marks, <<method, k>>)

\* C2: each recorded failure adds one to the failure count; afterwards the
\* handle is tripped if and only if the count has reached maxFails, so it
\* stays available below maxFails and an available handle trips at the
\* failure that makes the count equal to maxFails.
C2_FailureCounts ==
    [][\A p \in Threads : \A k \in 1..Len(clients) :
         MarkStep(p, k, "MarkFail") =>
           /\ clients'[k].failCount = clients[k].failCount + 1
           /\ clients'[k].unavailable <=> clients'[k].failCount >= maxFails
           /\ ~clients[k].unavailable /\ clients'[k].unavailable
                => clients'[k].failCount = maxFails]_vars

\* With maxFails = 3, the third consecutive failure has just tripped a handle
\* that was available with count 2.
C2_Witness ==
    \E p \in Threads :
        /\ maxFails = 3 /\ th[p].pc = "done"
        /\ obs[p].marks = << <<"MarkFail", th[p].cw>> >>
        /\ obs[p].pre[1].failCount = 2 /\ ~obs[p].pre[1].unavailable
        /\ clients[th[p].cw].failCount = 3 /\ clients[th[p].cw].unavailable

\* C3 as stated: a selector never returns a handle that has tripped and has
\* not since been scanned with the cooldown elapsed since its last failure.
C3_NoReturnBeforeCooldown ==
    [][\A p \in Threads :
         RLockHeld(p) /\ th'[p].pc = "exec"
           => th'[p].cw \notin quarantined']_vars

\* Thread p lazily resets handle k in this step.
ResetStep(p, k) ==
    /\ th[p].pc = "reset" /\ th[p].cw = k /\ th'[p].pc = "recheck"
    /\ clients'[k] = ResetAvailable(clients[k])

\* C3: a tripped handle becomes available again only when a success is
\* recorded on it or a selector lazily resets it, and a selector resets it
\* only after it has read a last-failure time older than the cooldown; round
\* robin and random return only a handle that is available when they return
\* it, and weightedRandom only a handle that it collected as available.
C3_TrippedUntilSuccessOrReset ==
    [][/\ \A k \in 1..Len(clients) :
            clients[k].unavailable /\ ~clients'[k].unavailable
              => \/ \E p \in Threads : MarkStep(p, k, "MarkSuccess")
                 \/ \E p \in Threads :
                      /\ ResetStep(p, k)
                      /\ th[p].lf # ZeroTime
                      /\ now - th[p].lf > cooldown
       /\ \A p \in Threads :
            /\ RLockHeld(p) /\ th'[p].pc = "exec"
                 => IF th[p].balancer = WeightedRandom
                    THEN \E j \in 1..Len(th[p].validClients) :
                            th[p].validClients[j] = th'[p].cw
                    ELSE ~clients[th'[p].cw].unavailable
            /\ Len(th'[p].validClients) > Len(th[p].validClients)
                 => /\ th'[p].validClients =
                          Append(th[p].validClients, th[p].cw)
                    /\ ~clients[th[p].cw].unavailable]_vars

\* A selector has returned a handle that tripped and whose cooldown has not
\* elapsed: a success recorded by a call in flight made it available.
C3_Witness ==
    \E p \in Threads :
        /\ th[p].pc = "exec" /\ th[p].cw \in quarantined
        /\ ~clients[th[p].cw].unavailable
        /\ clients[th[p].cw].lastFail # ZeroTime
        /\ now - clients[th[p].cw].lastFail <= cooldown

\* C4: a recorded success leaves the handle available with failure count 0,
\* whatever its state was, and changes nothing else of it; a failure on a
\* handle with count 0 then trips it only if maxFails is 1.
C4_SuccessResets ==
    [][\A p \in Threads : \A k \in 1..Len(clients) :
         /\ MarkStep(p, k, "MarkSuccess") =>
              clients'[k] = [clients[k] EXCEPT !.failCount = 0,
                                               !.unavailable = FALSE]
         /\ MarkStep(p, k, "MarkFail") /\ clients[k].failCount = 0
              => (clients'[k].unavailable <=> maxFails = 1)]_vars

\* A success has just been recorded on a handle that was tripped, by a call
\* that was in flight on it when it tripped.
C4_Witness ==
    \E p \in Threads :
        /\ th[p].pc = "done"
        /\ obs[p].marks = << <<"MarkSuccess", th[p].cw>> >>
        /\ obs[p].pre[1].unavailable /\ obs[p].pre[1].failCount >= maxFails
        /\ ~clients[th[p].cw].unavailable /\ clients[th[p].cw].failCount = 0

\* C5: a tripped handle has at least maxFails consecutive failures, and no
\* failure count is negative.
C5_TrippedImpliesMaxFails ==
    \A k \in 1..Len(clients) :
        /\ clients[k].unavailable => clients[k].failCount >= maxFails
        /\ clients[k].failCount >= 0

\* A tripped handle with more failures than maxFails (a call in flight failed
\* after the trip) while a selector is about to reset it.
C5_Witness ==
    \E k \in 1..Len(clients) : \E p \in Threads :
        /\ clients[k].unavailable /\ clients[k].failCount > maxFails
        /\ th[p].pc = "reset" /\ th[p].cw = k

\* C6: a round-robin selection fails with NoAvailableClientError only if no
\* handle stayed available from the start of its scan to its end, also when
\* other round-robin selections run at the same time on the shared cursor.
C6_RoundRobinFindsAvailable ==
    \A p \in Threads :
        /\ th[p].pc = "done"
        /\ th[p].balancer = RoundRobin
        /\ th[p].err = NoAvailableClientError
        => obs[p].stayed = {}

\* C7: in an unbroken run of sequential, successful round-robin calls on a
\* fresh pool of N handles, the k-th call selects the handle at index
\* (k-1) mod N, and every N consecutive calls select each handle once.
C7_RoundRobinOrder ==
    rrOrder.pure =>
      LET N == Len(clients)
          sel == rrOrder.sel
      IN  /\ \A k \in 1..Len(sel) : sel[k] = ((k - 1) % N) + 1
          /\ \A k \in 1..Len(sel) :
               k + N - 1 <= Len(sel)
                 => {sel[j] : j \in k..(k + N - 1)} = 1..N

\* Six calls on three handles, all successful and returned.
C7_Witness ==
    /\ rrOrder.pure /\ Len(clients) = 3 /\ Len(rrOrder.sel) = 6
    /\ \A p \in Threads : th[p].pc = "done" /\ th[p].err = "nil"

\* The events of entering middlewares 1..n, and of leaving them n..1.
Entries(n) == [j \in 1..n |-> <<"in", j>>]
Exits(n) == [j \in 1..n |-> <<"out", n + 1 - j>>]

Occurs(tr, e) == \E k \in 1..Len(tr) : tr[k] = e
OpRuns(tr) == Cardinality({k \in 1..Len(tr) : tr[k][1] = "op"})

\* The chain of thread p's call has run.
Ran(p) == th[p].pc \in {"mark", "done", "panicked"} /\ th[p].cw # 0

\* C8: a call enters the middlewares in registration order, Recovery first,
\* and each middleware only after the one registered before it; the
\* operation runs only inside the last-registered one; when every
\* middleware passes the call on once and nothing panics, the call's events
\* are the entries 1..n, the operation, and the exits n..1.
C8_OnionOrder ==
    \A p \in Threads :
        Ran(p) =>
          LET tr == obs[p].trace
              n == Len(middlewares)
          IN  /\ \A k \in 1..Len(tr) :
                   /\ tr[k][1] = "in" /\ tr[k][2] > 1
                        => \E j \in 1..(k - 1) : tr[j] = <<"in", tr[k][2] - 1>>
                   /\ tr[k][1] = "op"
                        => \E j \in 1..(k - 1) : tr[j] = <<"in", n>>
              /\ OpRuns(tr) = 1 /\ ~PanicRaised(tr)
                   => tr = Entries(n) \o << <<"op">> >> \o Exits(n)

\* A call through Recovery and three registered middlewares has run the
\* operation once and returned.
C8_Witness ==
    \E p \in Threads :
        /\ th[p].pc = "done" /\ Len(middlewares) = 4
        /\ OpRuns(obs[p].trace) = 1 /\ Len(obs[p].trace) = 9

\* C9 as stated: a call in which the operation or a registered middleware
\* panicked returns a non-nil error, without the panic reaching the caller,
\* and records exactly one MarkFail.
C9_PanicAlwaysFails ==
    \A p \in Threads :
        /\ th[p].pc # "panicked"
        /\ th[p].pc = "done" /\ PanicRaised(obs[p].trace)
             => /\ th[p].err # "nil"
                /\ obs[p].marks = << <<"MarkFail", th[p].cw>> >>

\* C9: a panic never reaches the caller; when it reaches the Recovery
\* installed by the constructor, the call returns a non-nil error and the
\* handle's failure count is incremented exactly once; when a registered
\* middleware recovers it first, the one outcome recorded follows the error
\* the chain returns.
C9_PanicReachingRecoveryFails ==
    \A p \in Threads :
        /\ th[p].pc # "panicked"
        /\ th[p].pc = "done" /\ Occurs(obs[p].trace, <<"recovered", 1>>)
             => /\ th[p].err # "nil"
                /\ obs[p].marks = << <<"MarkFail", th[p].cw>> >>
                /\ clients[th[p].cw].failCount = obs[p].pre[1].failCount + 1
        /\ th[p].pc = "done" /\ PanicRaised(obs[p].trace)
             => OneOutcome(p)

\* The operation panicked under a registered Retry, the constructor's
\* Recovery caught it, and the call has returned its error.
C9_Witness ==
    \E p \in Threads :
        /\ th[p].pc = "done" /\ th[p].err = "panic recovered"
        /\ Len(middlewares) >= 2 /\ middlewares[2] = Retry
        /\ Occurs(obs[p].trace, <<"panic", 0>>)
        /\ Occurs(obs[p].trace, <<"recovered", 1>>)
        /\ obs[p].marks = << <<"MarkFail", th[p].cw>> >>

\* C10: the chain's first entry is the constructor's Recovery, whatever was
\* registered since; every call enters it first and leaves it last, so no
\* panic passes it.
C10_RecoveryOutermost ==
    /\ Len(middlewares) >= 1 /\ middlewares[1] = Recover
    /\ \A p \in Threads :
         Ran(p) => /\ th[p].pc # "panicked"
                   /\ obs[p].trace[1] = <<"in", 1>>
                   /\ obs[p].trace[Len(obs[p].trace)] = <<"out", 1>>

\* Three middlewares were registered, the last-registered one panicked, and
\* the call has returned.
C10_Witness ==
    \E p \in Threads :
        /\ th[p].pc = "done" /\ Len(middlewares) = 4
        /\ middlewares[4] = Panicky
        /\ Occurs(obs[p].trace, <<"panic", 4>>)

\* C11: when the selection of a Do* call fails, the call returns
\* NoAvailableClientError at once: no middleware and no operation has run,
\* no outcome is recorded, and the failing step changes no handle.
C11_SelectionFailureShortCircuits ==
    [][\A p \in Threads :
         th[p].pc \in ScanPcs \cup {"idle"} /\ th'[p].pc = "done"
           => /\ th'[p].err = NoAvailableClientError
              /\ th'[p].cw = 0
              /\ clients' = clients
              /\ obs'[p].marks = <<>>
              /\ obs'[p].trace = <<>>
              /\ obs'[p].calls = 0]_vars

\* A weighted-random call on a pool whose only handle is tripped has
\* returned the error.
C11_Witness ==
    \E p \in Threads :
        /\ th[p].pc = "done" /\ th[p].balancer = WeightedRandom
        /\ th[p].err = NoAvailableClientError
        /\ Len(clients) = 1 /\ clients[1].unavailable
        /\ obs[p].trace = <<>> /\ obs[p].marks = <<>>

\* C12: on a pool without handles a selection by any strategy ends in one
\* step with NoAvailableClientError: the cursor is neither read modulo the
\* length nor advanced, nothing is drawn, and the call does not panic.
C12_EmptyPoolFails ==
    [][\A p \in Threads :
         th[p].pc = "idle" /\ th'[p].pc # "idle" /\ Len(clients) = 0
           => /\ th'[p].pc = "done"
              /\ th'[p].err = NoAvailableClientError
              /\ th'[p].cw = 0
              /\ index' = index /\ clients' = clients]_vars

\* A random selection on the empty pool has returned the error.
C12_Witness ==
    \E p \in Threads :
        /\ th[p].pc = "done" /\ th[p].balancer = Random
        /\ th[p].err = NoAvailableClientError
        /\ Len(clients) = 0 /\ index = 0

\* The number of draws r in [0, total) for which the walk returns handle k.
DrawsSelecting(valid, total, k) ==
    Cardinality({r \in 0..(total - 1) : Walk(valid, r, 0) = k})

\* C13: a handle added with weight 0 or less has weight 1 and one added
\* with a positive weight has that weight, so every weight is at least 1;
\* when weightedRandom draws, a handle added with weight 0 or less is
\* returned by as many draws as a handle added with weight 1.
C13_WeightNormalised ==
    /\ \A k \in 1..Len(clients) :
         /\ clients[k].weight >= 1
         /\ clients[k].client <= 0 => clients[k].weight = 1
         /\ clients[k].client >= 1 => clients[k].weight = clients[k].client
    /\ \A p \in Threads :
         th[p].pc = "draw" =>
           \A i, j \in {th[p].validClients[n] :
                           n \in 1..Len(th[p].validClients)} :
               clients[i].client <= 0 /\ clients[j].client = 1
                 => DrawsSelecting(th[p].validClients, th[p].total, i)
                      = DrawsSelecting(th[p].validClients, th[p].total, j)

\* weightedRandom is about to draw among a handle added with weight 0 and
\* one added with weight 1.
C13_Witness ==
    \E p \in Threads :
        /\ th[p].pc = "draw" /\ th[p].validClients = <<1, 2>>
        /\ clients[1].client = 0 /\ clients[2].client = 1
        /\ th[p].total = 2

\* The summed weight of the first i handles of valid.
RECURSIVE PrefixWeight(_, _)
PrefixWeight(valid, i) ==
    IF i = 0 THEN 0
    ELSE PrefixWeight(valid, i - 1) + clients[valid[i]].weight

\* C14: when weightedRandom draws, the handles it collected are the
\* available ones in insertion order and total is their summed weight; the
\* draw r returns the one handle whose weight interval contains r, so a
\* handle of weight w is returned by exactly w of the total draws and a
\* tripped handle by none; the selector fails only if the total is 0.
C14_WeightedDraw ==
    [][\A p \in Threads :
         th[p].pc = "draw" =>
           LET valid == th[p].validClients
               total == th[p].total
               n == Len(valid)
           IN  /\ total = PrefixWeight(valid, n)
               /\ \A i, j \in 1..n : i < j => valid[i] < valid[j]
               /\ {valid[i] : i \in 1..n} = Available
               /\ \A r \in 0..(total - 1) :
                    \E i \in 1..n :
                        /\ Walk(valid, r, 0) = valid[i]
                        /\ PrefixWeight(valid, i - 1) <= r
                        /\ r < PrefixWeight(valid, i)
               /\ \A k \in 1..Len(clients) :
                    DrawsSelecting(valid, total, k) =
                        IF k \in Available THEN clients[k].weight ELSE 0
               /\ th'[p].pc = "exec"
                    => \E i \in 1..n :
                         /\ th'[p].cw = valid[i]
                         /\ PrefixWeight(valid, i) - PrefixWeight(valid, i - 1)
                              = clients[valid[i]].weight
               /\ th'[p].pc = "done" => total = 0]_vars

\* weightedRandom is about to draw among handles of weights 1, 2 and 3.
C14_Witness ==
    \E p \in Threads :
        /\ th[p].pc = "draw" /\ th[p].validClients = <<1, 2, 3>>
        /\ \A k \in 1..3 : clients[k].weight = k
        /\ th[p].total = 6

\* C15: a random selection looks at the handle of the drawn index only:
\* while it runs it keeps that index and changes no other handle; it
\* returns that handle if it is available after the lazy reset and fails
\* with NoAvailableClientError if it is still tripped, whatever the state
\* of the other handles.
C15_RandomExaminesOne ==
    [][\A p \in Threads :
         RLockHeld(p) /\ th[p].balancer = Random =>
           LET k == th[p].cw
           IN  /\ k \in 1..Len(clients)
               /\ \A j \in 1..Len(clients) : j # k => clients'[j] = clients[j]
               /\ RLockHeld(p)' => th'[p].cw = k
               /\ th'[p].pc = "exec"
                    => th'[p].cw = k /\ ~clients[k].unavailable
               /\ th'[p].pc = "done"
                    => /\ clients[k].unavailable
                       /\ th'[p].err = NoAvailableClientError
               /\ th'[p].pc \in {"exec", "done"} \/ RLockHeld(p)']_vars

\* A random selection has failed on a tripped handle while another handle
\* of the pool is available.
C15_Witness ==
    \E p \in Threads :
        /\ th[p].pc = "done" /\ th[p].balancer = Random
        /\ th[p].err = NoAvailableClientError
        /\ Len(clients) >= 2 /\ Available # {}
        /\ \E k \in 1..Len(clients) : clients[k].unavailable

\* The chain is Recovery, one Retry, and otherwise only middlewares that
\* pass the call on once and return what they get.
RetryInstalled(chain) ==
    /\ Cardinality({i \in 1..Len(chain) : chain[i] = Retry}) = 1
    /\ chain[1] = Recover
    /\ \A i \in 2..Len(chain) : chain[i] \in {Retry, Timeout}

\* Calls in which the operation fails 0..RetryAttempts+1 times before it
\* succeeds.
RetryScripts == Scripts(0..(RetryAttempts + 1))

ShortCircuited(tr, calls, i) ==
    /\ calls = 0 /\ OpRuns(tr) = 0
    /\ \A m \in 1..Len(tr) : tr[m][2] <= i
    /\ Len(tr) >= 2 * i
    /\ SubSeq(tr, Len(tr) - i + 1, Len(tr)) = Exits(i)

C18_LockNotHeldAcrossCall ==
    \A p \in 1..NumThreads :
        /\ \A q \in 1..NumThreads :
             (th[p].pc = "exec" /\ th[q].pc \in ScanPcs)
               ~> (th[p].pc # "exec" \/ th[q].pc \notin ScanPcs)
        /\ (th[p].pc = "exec" /\ Len(clients) < lim.maxClients)
             ~> (th[p].pc # "exec" \/ Len(clients) = lim.maxClients)

\* One call is inside its operation, another one is selecting, and the pool
\* still has room for a handle.
C18_Witness ==
    \E p, q \in Threads :
        /\ th[p].pc = "exec" /\ th[q].pc = "recheck"
        /\ Len(clients) < lim.maxClients

\* C19: with an operation that always succeeds and a caller that calls Do
\* again and again, every handle of the pool is selected at some time,
\* whichever of the three strategies is the default, provided the random
\* draws are fair.
C19_EveryHandleSelected ==
    \A k \in 1..MaxLiveClients :
        \/ [](Len(clients) < k)
        \/ <>(th[1].pc = "exec" /\ th[1].cw = k)

\* Weighted random has selected the third handle of three.
C19_Witness ==
    /\ defaultBalancer = WeightedRandom /\ Len(clients) = 3
    /\ th[1].pc = "exec" /\ th[1].cw = 3

C21_CursorNeverDecreases == [][index' >= index]_vars

\* C22: the handle sequence and the chain only grow, by one entry at their
\* end: no step shortens either, a handle keeps its index, id, client and
\* weight, a registered middleware keeps its place, and the only steps that
\* change either are an AddClient, which appends the handle built from its
\* arguments, and a RegisterMiddleware, which appends its middleware; both
\* leave every call in flight as it is.
C22_AppendOnly ==
    [][/\ Len(clients') >= Len(clients)
       /\ \A k \in 1..Len(clients) :
            /\ clients'[k].Id = clients[k].Id
            /\ clients'[k].client = clients[k].client
            /\ clients'[k].weight = clients[k].weight
       /\ Len(middlewares') >= Len(middlewares)
       /\ SubSeq(middlewares', 1, Len(middlewares)) = middlewares
       /\ Len(clients') # Len(clients)
            => /\ \E a \in lim.adds :
                    clients' = Append(clients,
                                 NewClientWrapper(a[1], a[2],
                                                  NormalWeight(a[3])))
               /\ th' = th /\ middlewares' = middlewares
       /\ middlewares' # middlewares
            => /\ \E m \in lim.kinds : middlewares' = Append(middlewares, m)
               /\ th' = th /\ clients' = clients]_vars

\* A second handle was added while a call was in flight on the first one:
\* the call began when the pool had one handle, runs through a registered
\* middleware, and the first handle is as it was added.
C22_Witness ==
    \E p \in Threads :
        /\ th[p].pc = "exec" /\ th[p].cw = 1 /\ obs[p].stayed = {1}
        /\ Len(clients) = 2 /\ Len(middlewares) = 2
        /\ clients[1] = NewClientWrapper("x", "c1", 1)
        /\ clients[2] = NewClientWrapper("y", "c2", 2)

\* The calls other than p's that have failed on handle k and have still to
\* record it.
PendingFails(p, k) ==
    {q \in Threads \ {p} :
        th[q].pc = "mark" /\ th[q].cw = k /\ th[q].err # "nil"}

C24_AnyErrorCountsAsFailure ==
    [][\A p \in Threads :
         /\ th[p].pc = "exec" /\ th'[p].pc = "mark"
              => \E s \in lim.scripts :
                    LET r == executeWithMiddleware(middlewares, s)
                    IN  /\ th'[p].err = r.err
                        /\ obs'[p].calls = r.calls
                        /\ (s.limited /\ \E i \in 1..Len(middlewares) :
                                             middlewares[i] = RateLimiter)
                             => (r.calls = 0 /\ r.err = "rate: wait timeout")
         /\ th[p].pc = "mark" /\ th'[p].pc = "done"
              => /\ th'[p].err = th[p].err /\ th'[p].cw = th[p].cw
                 /\ th[p].err # "nil"
                      => LET k == th[p].cw
                         IN  /\ obs'[p].marks = << <<"MarkFail", k>> >>
                             /\ clients'[k].failCount =
                                    clients[k].failCount + 1
                             /\ clients'[k].unavailable
                                  <=> clients'[k].failCount >= maxFails
                             /\ clients'[k].lastFail = now]_vars

\* With maxFails = 2 and one failure counted before, a weighted-random call
\* whose limiter timed out before the operation ran has tripped the handle.
C24_Witness ==
    \E p \in Threads :
        /\ maxFails = 2 /\ th[p].pc = "done"
        /\ th[p].balancer = WeightedRandom
        /\ th[p].err = "rate: wait timeout" /\ obs[p].calls = 0
        /\ obs[p].marks = << <<"MarkFail", th[p].cw>> >>
        /\ obs[p].pre[1].failCount = 1 /\ ~obs[p].pre[1].unavailable
        /\ clients[th[p].cw].failCount = 2 /\ clients[th[p].cw].unavailable

\* C25: with a metrics middleware installed, a call whose context carries
\* neither a method label nor a client label, so that the middleware has the
\* handle's id as its only label value, is passed on to next: the operation
\* runs once, the call returns the operation's error, nil if it succeeded,
\* and records the outcome that goes with it.
C25_MissingLabelPassesThrough ==
    \A p \in Threads :
        /\ th[p].pc = "done" /\ th[p].cw # 0
        /\ Occurs(obs[p].trace, <<"labels", 1>>)
        => /\ obs[p].calls = 1
           /\ th[p].err \in {"nil", "operation failed"}
           /\ OneOutcome(p)

\* The entry point Do stands for on this pool.
DefaultEntry ==
    IF defaultBalancer \in {RoundRobin, WeightedRandom}
    THEN defaultBalancer ELSE Random

\* C26: a step is a step of Do exactly if it is a step of the entry point of
\* the pool's default strategy (of DoRandomClient when the default is none
\* of the three), so Do can do whatever that entry point can and nothing
\* else.  Whichever entry point began a call, the call selects with the
\* selector of its strategy, then runs the chain, then records the outcome
\* that goes with the chain's error on the selected handle and returns that
\* error: after the selection nothing depends on the strategy.
C26_DoDispatches ==
    [][\A p \in Threads :
         /\ th[p].pc = "idle" /\ th'[p].pc # "idle"
              => /\ th'[p].balancer \in BalancerType
                 /\ Do(p) <=> Begin(p, DefaultEntry)
                 /\ Do(p) => th'[p].balancer = DefaultEntry
         /\ RLockHeld(p)
              => /\ th'[p].balancer = th[p].balancer
                 /\ th'[p].pc \in ScanPcs \cup {"exec", "done"}
         /\ th[p].pc = "exec" /\ th'[p].pc # "exec"
              => /\ th'[p].pc = "mark" /\ th'[p].cw = th[p].cw
                 /\ \E s \in lim.scripts :
                       th'[p].err = executeWithMiddleware(middlewares, s).err
         /\ th[p].pc = "mark" /\ th'[p].pc # "mark"
              => /\ th'[p].pc = "done" /\ th'[p].err = th[p].err
                 /\ clients'[th[p].cw] =
                      CallAll(clients[th[p].cw], Outcome(th[p].err))]_vars

\* On a pool whose default is weighted random, a weighted-random call has
\* selected the second of two handles, failed and recorded the failure.
C26_Witness ==
    \E p \in Threads :
        /\ defaultBalancer = WeightedRandom
        /\ th[p].pc = "done" /\ th[p].balancer = WeightedRandom
        /\ th[p].cw = 2 /\ th[p].err = "operation failed"
        /\ obs[p].marks = << <<"MarkFail", 2>> >>

\* C27: no two handles of the pool have the same id, whatever AddClient
\* calls were made.
C27_UniqueIds ==
    \A i, j \in 1..Len(clients) :
        i # j => clients[i].Id # clients[j].Id

\* The cursor with which the round-robin scan of a thread in state t began,
\* when the cursor is idx and no other scan has moved it.
ScanStart(t, idx) ==
    IF t.pc \in {"rr_pick", "rr_inc"} THEN idx - t.i ELSE idx - t.i - 1

\* C28: a sequential round-robin scan that begins with cursor c over N
\* handles examines the handles at (c+0) mod N, (c+1) mod N, ... in turn and
\* advances the cursor by one for each; it returns the first of them that is
\* available once lazily reset, at (c+k) mod N, leaving the cursor at c+k+1
\* with the k handles before it tripped; if all N are tripped it fails with
\* the cursor at c+N.  The cursor moves in no other step, so the next scan
\* begins where this one stopped.
C28_ScanFromCursor ==
    [][\A p \in Threads :
         /\ th[p].balancer = RoundRobin /\ RLockHeld(p) =>
              LET N == Len(clients)
                  c == ScanStart(th[p], index)
                  k == th[p].i
                  At(j) == ((c + j) % N) + 1
              IN  /\ c >= 0 /\ k \in 0..(N - 1)
                  /\ th[p].pc # "rr_pick" => th[p].cw = At(k)
                  /\ \A j \in 0..(k - 1) : clients[At(j)].unavailable
                  /\ RLockHeld(p)' => ScanStart(th'[p], index') = c
                  /\ th'[p].pc = "exec"
                       => /\ th'[p].cw = At(k)
                          /\ ~clients'[At(k)].unavailable
                          /\ index' = c + k + 1
                  /\ th'[p].pc = "done"
                       => /\ th'[p].err = NoAvailableClientError
                          /\ k = N - 1 /\ index' = c + N
                          /\ \A j \in 0..(N - 1) : clients'[At(j)].unavailable
         /\ th[p].pc = "idle" /\ th'[p].pc = "rr_pick"
              => ScanStart(th'[p], index') = index
         /\ ~RLockHeld(p) => index' = index]_vars

\* On three handles a scan that began with cursor 5 has skipped the third
\* handle, which is tripped, and is about to return the first one, with the
\* cursor at 7.
C28_Witness ==
    \E p \in Threads :
        /\ th[p].pc = "recheck" /\ th[p].balancer = RoundRobin
        /\ Len(clients) = 3 /\ index = 7 /\ th[p].i = 1 /\ th[p].cw = 1
        /\ clients[3].unavailable /\ ~clients[1].unavailable

\* C29: a weighted-random selection fails with NoAvailableClientError
\* exactly if it collected no handle as available after its lazy resets;
\* when it collected one, the total weight is positive and the draw and the
\* walk return one of the collected handles: the selection neither panics
\* nor falls off the end of the walk.
C29_WeightedNeverFalselyFails ==
    [][\A p \in Threads :
         th[p].pc = "draw" /\ th'[p].pc # "draw" =>
           LET valid == th[p].validClients
           IN  /\ th'[p].pc \in {"exec", "done"}
               /\ th'[p].pc = "done" <=> valid = <<>>
               /\ valid # <<>>
                    => /\ th[p].total > 0
                       /\ \A r \in 0..(th[p].total - 1) : Walk(valid, r, 0) # 0
                       /\ \E i \in 1..Len(valid) : th'[p].cw = valid[i]]_vars

\* C30: a handle is made available again, with failure count 0, only by a
\* recorded success or by a lazy reset made when the cooldown has elapsed
\* since the handle's most recent recorded failure: a failure recorded by a
\* call in flight after the selector's checks is not erased by its reset.
C30_ResetOnlyAfterCooldown ==
    [][\A k \in 1..Len(clients) :
         clients[k].unavailable /\ ~clients'[k].unavailable
           => \/ \E p \in Threads : MarkStep(p, k, "MarkSuccess")
              \/ /\ \E p \in Threads : ResetStep(p, k)
                 /\ now - clients[k].lastFail > cooldown]_vars

\* C31: every recorded failure sets the handle's last-failure time to the
\* time of that failure, whether the handle stays below maxFails, trips, or
\* was tripped already; nothing else changes the last-failure time: a
\* recorded success and a lazy reset leave it as it is.
C31_LastFailIsLatestFailure ==
    [][\A k \in 1..Len(clients) :
         /\ \A p \in Threads :
              /\ MarkStep(p, k, "MarkFail") => clients'[k].lastFail = now
              /\ MarkStep(p, k, "MarkSuccess") \/ ResetStep(p, k)
                   => clients'[k].lastFail = clients[k].lastFail
         /\ clients'[k].lastFail # clients[k].lastFail
              => \E p \in Threads : MarkStep(p, k, "MarkFail")]_vars

\* A call that was in flight when the handle tripped at time 0 has failed
\* at time 1: the tripped handle's last-failure time is now 1.
C31_Witness ==
    \E p \in Threads :
        /\ th[p].pc = "done"
        /\ obs[p].marks = << <<"MarkFail", th[p].cw>> >>
        /\ obs[p].pre[1].unavailable /\ obs[p].pre[1].lastFail = 0
        /\ clients[th[p].cw].unavailable /\ clients[th[p].cw].lastFail = 1

\* C32: a selector that finds a handle tripped goes on to reset it exactly
\* if the time since the handle's last failure is greater than the
\* cooldown; when the time is equal to the cooldown or less, the selector
\* leaves the handle as it is, and a handle that is still tripped when the
\* selector looks at it again is not returned.  So a tripped handle becomes
\* available by a lazy reset only with more than the cooldown elapsed.
C32_ResetStrictlyAfterCooldown ==
    [][\A p \in Threads :
         LET k == th[p].cw
         IN  /\ th[p].pc = "since" /\ th'[p] # th[p]
                  => /\ clients' = clients
                     /\ th'[p].pc = IF now - clients[k].lastFail > cooldown
                                    THEN "reset" ELSE "recheck"
             /\ th[p].pc = "reset" /\ th'[p] # th[p]
                  => /\ now - clients[k].lastFail > cooldown
                     /\ clients'[k] = ResetAvailable(clients[k])
             /\ th[p].pc = "recheck" /\ clients[k].unavailable
                  => ~(th'[p].pc = "exec" /\ th'[p].cw = k)
             /\ \A j \in 1..Len(clients) :
                  clients[j].unavailable /\ ~clients'[j].unavailable
                    => /\ th[p].pc = "reset" /\ j = k
                       /\ now - clients[j].lastFail > cooldown]_vars

\* With a cooldown of 0 a random selection has scanned the only handle at
\* the instant of the failure that tripped it, and has failed: the handle is
\* still tripped.
C32_Witness ==
    \E p \in Threads :
        /\ cooldown = 0 /\ now = 0 /\ Len(clients) = 1
        /\ clients[1].unavailable /\ clients[1].lastFail = 0
        /\ th[p].pc = "done" /\ th[p].balancer = Random
        /\ th[p].err = NoAvailableClientError

\* C33: a lazy reset leaves the handle available with a failure count of 0.
\* The count grows only by one, at a recorded failure, and otherwise only
\* falls to 0; an available handle trips only at the failure that takes its
\* count from maxFails - 1 to maxFails.  So a handle that was reset trips
\* again only after maxFails new failures in a row, and while its count is
\* below maxFails it is available.
C33_ResetRestoresBudget ==
    [][\A p \in Threads : \A k \in 1..Len(clients) :
         /\ th[p].pc = "reset" /\ th[p].cw = k /\ th'[p] # th[p]
              => clients'[k].failCount = 0 /\ ~clients'[k].unavailable
         /\ clients'[k].failCount > clients[k].failCount
              => /\ \E q \in Threads : MarkStep(q, k, "MarkFail")
                 /\ clients'[k].failCount = clients[k].failCount + 1
         /\ clients'[k].failCount < clients[k].failCount
              => clients'[k].failCount = 0
         /\ ~clients[k].unavailable /\ clients'[k].unavailable
              => /\ clients[k].failCount = maxFails - 1
                 /\ clients'[k].failCount = maxFails
         /\ clients'[k].failCount < maxFails => ~clients'[k].unavailable]_vars

\* With maxFails = 2 the only handle was tripped when the call began, the
\* call's selector reset and returned it, and the call has failed: the
\* handle has count 1 and is still available.
C33_Witness ==
    \E p \in Threads :
        /\ maxFails = 2 /\ Len(clients) = 1
        /\ th[p].pc = "done" /\ th[p].cw = 1
        /\ obs[p].stayed = {}
        /\ obs[p].marks = << <<"MarkFail", 1>> >>
        /\ obs[p].pre[1].failCount = 0 /\ ~obs[p].pre[1].unavailable
        /\ clients[1].failCount = 1 /\ ~clients[1].unavailable

\* C34 as stated: a selection that fails has changed no handle, whatever
\* other calls do meanwhile: it has made no lazy reset, and its last step
\* leaves every handle as it is.
C34_FailedSelectionChangesNothing ==
    [][\A p \in Threads :
         th[p].pc \in ScanPcs \cup {"idle"} /\ th'[p].pc = "done"
           => obs[p].resets = {} /\ clients' = clients]_vars

\* C34: a step of a selector changes no handle, except a lazy reset, which
\* clears the count and the trip of the handle under examination and keeps
\* its last-failure time.  A selection that fails, during which no other
\* call entered a selector or recorded an outcome, has made no lazy reset, so
\* it leaves every handle unchanged; if it is a round-robin scan over N
\* handles, it leaves the cursor at its value at the start plus N, which is
\* the same position modulo N.
C34_FailedSelectionFrame ==
    [][\A p \in Threads :
         LET N == Len(clients)
             fails == th[p].pc \in ScanPcs \cup {"idle"} /\ th'[p].pc = "done"
         IN  /\ RLockHeld(p) /\ th'[p] # th[p]
                  => \/ clients' = clients
                     \/ /\ th[p].pc = "reset"
                        /\ clients' = [clients EXCEPT ![th[p].cw] =
                                         [@ EXCEPT !.failCount = 0,
                                                   !.unavailable = FALSE]]
             /\ fails => /\ th'[p].err = NoAvailableClientError
                         /\ clients' = clients
             /\ fails /\ obs[p].alone => obs[p].resets = {}
             /\ fails /\ obs[p].alone /\ th[p].balancer = RoundRobin /\ N > 0
                  => /\ index' = obs[p].cursor + N
                     /\ index' % N = obs[p].cursor % N]_vars

\* A round-robin selection that ran on its own over two tripped handles has
\* failed: it began with the cursor at 1 and leaves it at 3, and it has
\* reset nothing.
C34_Witness ==
    \E p \in Threads :
        /\ th[p].pc = "done" /\ th[p].balancer = RoundRobin
        /\ th[p].err = NoAvailableClientError
        /\ Len(clients) = 2 /\ obs[p].alone /\ obs[p].resets = {}
        /\ obs[p].cursor = 1 /\ index = 3
        /\ \A k \in 1..2 : clients[k].unavailable

\* C35 as stated: when a weighted-random selection that ran on its own
\* completes, no handle is tripped with its cooldown elapsed.
C35_WeightedLeavesNoneElapsed ==
    [][\A p \in Threads :
         th[p].pc = "draw" /\ th'[p].pc # "draw" /\ obs[p].alone
           => \A k \in 1..Len(clients) :
                ~(clients[k].unavailable
                  /\ now - clients[k].lastFail > cooldown)]_vars

\* C35: a weighted-random selection that ran on its own has examined every
\* handle and has reset each one that was tripped with its cooldown elapsed
\* at the moment it was examined: when it completes, every handle that is
\* still tripped was examined with its cooldown not elapsed, and every handle
\* it reset is available.  A round-robin selection that ran on its own has
\* reset only handles at the positions it examined, from the cursor it
\* began with, and a random selection only the handle it drew.
C35_WeightedResetsAllExamined ==
    [][\A p \in Threads :
         LET N == Len(clients)
             ends == RLockHeld(p) /\ ~RLockHeld(p)' /\ obs[p].alone
         IN  /\ ends /\ th[p].balancer = WeightedRandom
                  => /\ th[p].pc = "draw"
                     /\ \A k \in 1..N :
                          clients[k].unavailable => k \in obs[p].kept
                     /\ \A k \in obs[p].resets : ~clients[k].unavailable
                     /\ obs[p].resets \cap obs[p].kept = {}
             /\ ends /\ th[p].balancer = RoundRobin
                  => obs[p].resets \subseteq
                       {((obs[p].cursor + j) % N) + 1 : j \in 0..th[p].i}
             /\ ends /\ th[p].balancer = Random
                  => obs[p].resets \subseteq {th[p].cw}]_vars

\* A weighted-random selection that ran on its own over two tripped handles
\* has reset both and returned one of them.
C35_Witness ==
    \E p \in Threads :
        /\ th[p].pc = "exec" /\ th[p].balancer = WeightedRandom
        /\ Len(clients) = 2 /\ obs[p].alone /\ obs[p].resets = {1, 2}
        /\ \A k \in 1..2 : ~clients[k].unavailable /\ clients[k].failCount = 0

\* C36: every index with which a selector reads the handle sequence is
\* within the sequence: the sequence keeps its length while a selector holds
\* the read lock, round robin reads at the cursor's remainder by a positive
\* length, which is at least 0 and less than the length, the handle a
\* selector holds is one of the sequence, and no selector panics.
C36_IndexInRange ==
    [][\A p \in Threads :
         LET N == Len(clients)
         IN  /\ RLockHeld(p) => Len(clients') = N /\ N > 0
             /\ th[p].pc = "rr_pick" /\ th'[p] # th[p]
                  => /\ Rem(index, N) \in 0..(N - 1)
                     /\ th'[p].cw = Rem(index, N) + 1
             /\ RLockHeld(p)' /\ th'[p].pc \notin {"rr_pick", "draw"}
                  => th'[p].cw \in 1..Len(clients')
             /\ RLockHeld(p) => th'[p].pc # "panicked"]_vars

====
